---- MODULE Spec2Model ----
(***************************************************************************)
(* Model of the daily-rotating, thread-safe logger of                      *)
(* repositorio_lib/core/logger.py: DailyRotatingFileHandler (rotation by   *)
(* date, size-bounded writer, lock-guarded emission path) and the logger   *)
(* factory setup_logger / get_logger.                                      *)
(*                                                                         *)
(* Sizes are counted in write units: one record line is written as the     *)
(* units of Parts (message text, then terminator).                         *)
(***************************************************************************)
EXTENDS Integers, Sequences, FiniteSets, TLC

\* ---------------------------------------------------------------- bounds
NumThreads == 2
MaxRecords == 2
MaxDate == 2
MaxBytes == 4
BackupCount == 1
MaxCalls == 2
MaxElapsed == 2
NumClients == 2
MaxLimit == 2
MaxWindow == 3
MaxNow == 4
MaxRequests == 3
MaxRetries == 2
MaxDelay == 3
MaxFactor == 2
MaxSize == 2
MaxClock == 2

Threads == 1..NumThreads
Dates == 1..MaxDate
NoThread == 0
NoDate == 0
NoHandler == 0

\* logging.NOTSET, logging.DEBUG, logging.INFO, logging.WARNING
NOTSET == 0
DEBUG == 10
INFO == 20
WARNING == 30
Levels == {DEBUG, INFO, WARNING}

\* one log line reaches the stream as its message followed by the terminator
Parts == <<"msg", "nl">>
RecLen == Len(Parts)

Records == Threads \X (1..MaxRecords)
CtorRecord == <<0, 0>>

VARIABLES
    clock,            \* wall-clock date, what datetime.now() formats to
    current_date,     \* self.current_date (NoDate = None)
    current_handler,  \* self.current_handler: the RotatingFileHandler of a date (NoHandler = None)
    stream,           \* stream[d]: the RotatingFileHandler of date d has an open stream
    lock,             \* owner of self.lock, a non-reentrant threading.Lock
    dirs,             \* dated folders that exist under log_dir
    fs,               \* fs[d] = <<name.log, name.log.1, ...>> contents in folder d
    evicted,          \* write units removed from disk by size rotation
    stderr,           \* what was printed to sys.stderr
    raiseExceptions,  \* logging.raiseExceptions
    pc,               \* position of each thread
    nrec,             \* number of records a thread has emitted so far
    today,            \* local `today` of _rotate_if_needed
    fmtok,            \* the thread's current record can be formatted
    rlevel,           \* levelno of the thread's current record
    hidx,             \* callHandlers: index into logger.handlers (0: emit was called directly)
    href,             \* handler object bound by self.current_handler.emit(record)
    part,             \* next unit of the line to write
    console,          \* console[r]: lines the console sink printed for record r
    emitDate,         \* history: date read by the date check of each record's emit
    failed,           \* history: <<kind, record>> for each failure met while emitting the record
    rotFails,         \* history: failed rotation attempts since the last successful one
    afterFails,       \* history: rotFails at the successful rotation done for a record
    lg_handlers,      \* logger.handlers of the named logger, in attachment order
    lg_level,         \* logger.level
    lg_propagate,     \* logger.propagate
    spc,              \* position of each thread inside setup_logger / get_logger
    sarg,             \* arguments of the thread's current setup_logger call
    ncall,            \* number of factory calls a thread has made
    basedir,          \* the base log directory exists
    closed,           \* history: close() has been called on the handler
    warned,           \* history: setup_logger logged its warnings through the console sink
    dirfail,          \* history: a directory creation failed inside a setup_logger call
    context,          \* StructuredLogger._context, a dict: <<key, value>> pairs in insertion order
    lastmsg,          \* the message most recently forwarded to self._logger, with its history
    sraised,          \* tasks whose last StructuredLogger call raised into the caller
    ambient,          \* history: last value given to each key by set_context since the last clear_context
    setBy,            \* history: tasks that set each key since the last clear_context
    mine,             \* history: keys a task set since its own last clear_context
    ppc,              \* position inside `with log_performance(...)`
    pargs,            \* arguments of the log_performance call
    pbody,            \* how the body of the with statement ends
    pelapsed,         \* milliseconds on time.perf_counter() since `start`
    plog,             \* records log_performance handed to the logger, in order
    pexit,            \* how control left log_performance
    acquired,         \* history: records in the order their emit took the handler lock
    max_requests,     \* RateLimiterMiddleware.max_requests
    window_seconds,   \* RateLimiterMiddleware.window_seconds
    exclude_paths,    \* RateLimiterMiddleware.exclude_paths
    requests_store,   \* requests_store[ip]: the timestamps kept for the client, in order
    last_cleanup,     \* RateLimiterMiddleware.last_cleanup
    rnow,             \* what datetime.now() returns to the middleware, in seconds
    inflight,         \* inflight[ip]: the client's request that call_next is handling
    answers,          \* history: the responses the middleware returned, in order
    formatter,        \* self.formatter of the DailyRotatingFileHandler
    inner_formatter,  \* inner_formatter[d]: formatter of the RotatingFileHandler of date d
    linefmt,          \* history: the format in which each record's line was produced
    rkind,            \* which retry helper is running
    rargs,            \* its arguments
    rpc,              \* position inside the retry helper
    attempt,          \* the loop variable `attempt`
    delay,            \* the local `delay` of the backoff wrappers
    invoked,          \* history: how each invocation of the wrapped function ended
    slept,            \* history: the delays given to time.sleep / asyncio.sleep
    rexit,            \* how the retry helper ended
    max_size,         \* SimpleCache._max_size
    cache,            \* SimpleCache._cache: the entries in insertion order
    cnow,             \* what datetime.now() returns to the cache
    cache_lock,       \* owner of SimpleCache._lock
    cpc,              \* the cache method each thread is in
    lastset           \* history: what the last completed set() did

\* state of the handler and of the threads that emit through it
hvars == <<clock, current_date, current_handler, stream, lock, dirs, fs, evicted,
           stderr, raiseExceptions, pc, nrec, today, fmtok, rlevel, hidx, href, part,
           console, emitDate, failed, rotFails, afterFails>>

\* state of the logger object and of the threads inside the factory
lvars == <<lg_handlers, lg_level, lg_propagate>>
svars == <<spc, sarg, ncall, basedir>>

\* history of close() and of the factory's directory failures
cvars == <<closed>>
wvars == <<warned, dirfail>>

\* state of the shared StructuredLogger and of one log_performance block
stvars == <<context, lastmsg, sraised, ambient, setBy, mine>>
pvars == <<ppc, pargs, pbody, pelapsed, plog, pexit>>
\* history of the order in which emit calls entered `with self.lock:`
qvars == <<acquired>>
\* state of the RateLimiterMiddleware and of its clients
rvars == <<max_requests, window_seconds, exclude_paths, requests_store, last_cleanup,
           rnow, inflight, answers>>
\* formatters of the DailyRotatingFileHandler and of its inner handlers
fvars == <<formatter, inner_formatter, linefmt>>
\* state of one call of a retry helper
tvars == <<rkind, rargs, rpc, attempt, delay, invoked, slept, rexit>>
\* state of a SimpleCache and of the threads that use it
kvars == <<max_size, cache, cnow, cache_lock, cpc, lastset>>
yvars == <<rvars, fvars, tvars, kvars>>
xvars == <<qvars, yvars>>
uvars == <<stvars, pvars, xvars>>
ovars == <<cvars, wvars, uvars>>

vars == <<hvars, lvars, svars, ovars>>

Rec(t) == <<t, nrec[t]>>

\* ------------------------------------------------------------ file system
Units(f) == {f[i] : i \in 1..Len(f)}

\* open(filename, "a"): creates the file when absent, keeps its content otherwise
OpenAppend(folder) == IF Len(folder) = 0 THEN << <<>> >> ELSE folder

Min(a, b) == IF a < b THEN a ELSE b

\* mutant: a rollover that never deletes the oldest backup
RolledFolderKeepingAll(folder, n) == << <<>> >> \o folder

\* RotatingFileHandler.doRollover on the files <<name.log, name.log.1, ...>> of a
\* folder: .i becomes .(i+1) for i < n, name.log becomes .1, a fresh name.log is
\* opened; with n = 0 nothing is renamed and name.log is reopened for append
RolledFolder(folder, n) ==
    IF n > 0
    THEN << <<>> >> \o SubSeq(folder, 1, Min(Len(folder), n))
    ELSE folder

\* what doRollover removes from disk: the content of name.log.n
RolledOut(folder, n) ==
    IF n > 0 /\ Len(folder) = n + 1 THEN Units(folder[n + 1]) ELSE {}

\* ------------------------------------------------------------- the handler
\* formatters: None, and the log_format that setup_logger builds
NoFormatter == "None"
LogFormat == "asctime | levelname | name | funcName:lineno | message"

\* Handler.format: a handler without a formatter uses logging's default, "%(message)s"
FormatUsed(f) == IF f = NoFormatter THEN "message" ELSE f

NotWritten == ""

\* mutant: a lock that never excludes anybody
LockAlwaysAvailable == TRUE

\* threading.Lock: acquire succeeds only while nobody holds it, the holder included
LockAvailable == lock = NoThread

\* mutant: the date is looked at only while there is no handler yet
NeedsRotationOnlyAtStart(d) == current_handler = NoHandler

\* `today == self.current_date and self.current_handler is not None` is False
NeedsRotation(d) == ~(d = current_date /\ current_handler # NoHandler)

\* mutant: the date is stored before the new file has been opened
FailedRotationDateStored(t) == today[t]

\* self.current_date as a failed rotation leaves it: it is assigned only after
\* the new RotatingFileHandler has been opened
FailedRotationDate(t) == current_date

\* RotatingFileHandler.shouldRollover on an open name.log
ShouldRoll(f) == MaxBytes > 0 /\ Len(f) + RecLen >= MaxBytes

\* RotatingFileHandler.emit wraps rollover and write in `except Exception:
\* self.handleError(record)`: a failure inside it is not raised to the caller
InnerRaises(ok) == FALSE

\* Handler.handleError prints its report only while logging.raiseExceptions
HandleError(r) == IF raiseExceptions THEN {<<"Logging error", r>>} ELSE {}

\* the logger as setup_logger(name) leaves it: console sink, then file sink
ConfiguredLogger ==
    /\ lg_handlers = << [kind |-> "console", level |-> INFO],
                        [kind |-> "file", level |-> INFO] >>
    /\ lg_level = INFO
    /\ lg_propagate = FALSE

FactoryIdle ==
    /\ spc = [t \in Threads |-> "idle"]
    /\ sarg = [t \in Threads |-> [level |-> INFO, propagate |-> FALSE]]
    /\ ncall = [t \in Threads |-> 0]
    /\ basedir = TRUE

\* close() has not been called; no setup_logger call has run yet
NotClosed == closed = FALSE

NoSetupHistory == warned = FALSE /\ dirfail = FALSE

\* logging.ERROR
ERROR == 40

\* keyword names and values given as context or per-call fields; Unprintable is
\* a value whose __str__ raises
Keys == {"a", "b"}
Unprintable == 0
Printable == {1, 2}
FieldValues == Printable \cup {Unprintable}

\* str(v) inside f"{k}={v}"
Str(v) == IF v = 1 THEN "1" ELSE "2"

\* **kwargs: up to two keyword arguments, in call order
Kwargs ==
    {<<>>}
    \cup {<< <<k, v>> >> : k \in Keys, v \in FieldValues}
    \cup {kw \in {<< <<k1, v1>>, <<k2, v2>> >> :
                       k1 \in Keys, v1 \in FieldValues, k2 \in Keys, v2 \in FieldValues} :
             kw[1][1] # kw[2][1]}

\* a dict is the sequence of its <<key, value>> items in insertion order
DictKeys(d) == {d[i][1] : i \in 1..Len(d)}

\* d[k] = v: an existing key keeps its position, a new key goes last
DictSet(d, k, v) ==
    IF k \in DictKeys(d)
    THEN [i \in 1..Len(d) |-> IF d[i][1] = k THEN <<k, v>> ELSE d[i]]
    ELSE Append(d, <<k, v>>)

\* d.update(kw), also {**d, **kw}
RECURSIVE DictUpdate(_, _)
DictUpdate(d, kw) ==
    IF kw = <<>> THEN d ELSE DictUpdate(DictSet(d, kw[1][1], kw[1][2]), Tail(kw))

\* nothing forwarded yet
NoMessage ==
    [task |-> NoThread, level |-> NOTSET, text |-> <<>>, fields |-> <<>>,
     foreign |-> {}, missing |-> {}]

\* StructuredLogger.__init__: self._context = {}
StructIdle ==
    /\ context = <<>>
    /\ lastmsg = NoMessage
    /\ sraised = {}
    /\ ambient = {}
    /\ setBy = [k \in Keys |-> {}]
    /\ mine = [t \in Threads |-> {}]

\* no log_performance block has been entered
PerfIdle ==
    /\ ppc = "idle"
    /\ pargs = [threshold |-> 0, log_args |-> FALSE, fields |-> FALSE]
    /\ pbody = "normal"
    /\ pelapsed = 0
    /\ plog = <<>>
    /\ pexit = "none"

\* no emit call has taken the handler lock yet
NothingAcquired == acquired = <<>>

\* ---------------------------------------------------- RateLimiterMiddleware
Clients == 1..NumClients

\* request paths, as the sequence of their parts
RootPath == <<"/">>
TestPath == <<"/", "test">>
HealthPath == <<"/", "health">>
Paths == {TestPath, HealthPath}

\* the default of exclude_paths
DefaultExcludePaths ==
    {RootPath, HealthPath, <<"/", "docs">>, <<"/", "redoc">>, <<"/", "openapi.json">>}

\* values given for the exclude_paths argument: None, an empty list, a list
NoPaths == {}
ExcludeArgs == {NoPaths, {HealthPath}}

\* `exclude_paths or [...]`: None and the empty list both give the default
ExcludePathsOf(arg) == IF arg = NoPaths THEN DefaultExcludePaths ELSE arg

\* cleanup_interval = timedelta(minutes=5), in seconds
cleanup_interval == 300

NoRequest == <<>>

\* the middleware after __init__ with some max_requests, window_seconds and
\* exclude_paths; no request has arrived
RateInit ==
    /\ max_requests \in 1..MaxLimit
    /\ window_seconds \in 1..MaxWindow
    /\ \E arg \in ExcludeArgs : exclude_paths = ExcludePathsOf(arg)
    /\ requests_store = [c \in Clients |-> <<>>]
    /\ last_cleanup = 0
    /\ rnow = 0
    /\ inflight = [c \in Clients |-> NoRequest]
    /\ answers = <<>>

\* a middleware that is constructed and not used
RateIdle ==
    /\ max_requests = 1
    /\ window_seconds = 1
    /\ exclude_paths = DefaultExcludePaths
    /\ requests_store = [c \in Clients |-> <<>>]
    /\ last_cleanup = 0
    /\ rnow = 0
    /\ inflight = [c \in Clients |-> NoRequest]
    /\ answers = <<>>

\* Handler.__init__ sets self.formatter = None; the initial rotation of the
\* constructor finds no formatter to apply
FormatterUnset ==
    /\ formatter = NoFormatter
    /\ inner_formatter = [d \in Dates |-> NoFormatter]
    /\ linefmt = [r \in Records |-> NotWritten]

\* ------------------------------------------------------------ retry helpers
BackoffKinds == {"retry_with_exponential_backoff", "retry_async"}
UntilKinds == {"retry_until_success", "retry_sync_until_success", "_execute_with_retries"}

\* how an invocation of the wrapped function can end: with a result, with an
\* exception that `except` catches, with one that it does not catch
Outcomes == {"ok", "listed", "unlisted"}

NoArgs == [limit |-> 0, initial_delay |-> 0, backoff_factor |-> 0, max_delay |-> 0]
NoExit == [how |-> "none", from |-> 0]

\* no retry helper has been called
RetryIdle ==
    /\ rkind = "none"
    /\ rargs = NoArgs
    /\ rpc = "idle"
    /\ attempt = 0
    /\ delay = 0
    /\ invoked = <<>>
    /\ slept = <<>>
    /\ rexit = NoExit

\* ---------------------------------------------------------------- SimpleCache
CacheKeys == {"k1", "k2", "k3"}
NoOp == <<>>

\* SimpleCache.__init__: an empty cache; max_size = 0 stands for a given 0, the
\* model has no cache without a max_size
CacheEmpty ==
    /\ cache = <<>>
    /\ cnow = 0
    /\ cache_lock = NoThread
    /\ cpc = [t \in Threads |-> NoOp]
    /\ lastset = NoOp

\* a cache that is constructed and not used
CacheIdle == max_size = 1 /\ CacheEmpty

OthersIdle == RateIdle /\ FormatterUnset /\ RetryIdle /\ CacheIdle

UtilitiesIdle == StructIdle /\ PerfIdle /\ NothingAcquired /\ OthersIdle

\* the handler after __init__, whose initial _rotate_if_needed succeeded (ok) or
\* failed on the dated folder or on the file
InitHandler(ok, re) ==
    /\ clock = 1
    /\ raiseExceptions = re
    /\ lock = NoThread
    /\ evicted = {}
    /\ pc = [t \in Threads |-> "idle"]
    /\ nrec = [t \in Threads |-> 0]
    /\ today = [t \in Threads |-> NoDate]
    /\ fmtok = [t \in Threads |-> TRUE]
    /\ rlevel = [t \in Threads |-> INFO]
    /\ hidx = [t \in Threads |-> 0]
    /\ href = [t \in Threads |-> NoHandler]
    /\ part = [t \in Threads |-> 1]
    /\ console = [r \in Records |-> 0]
    /\ emitDate = [r \in Records |-> NoDate]
    /\ afterFails = [r \in Records |-> 0]
    /\ failed = {}
    /\ IF ok
       THEN /\ current_date = 1
            /\ current_handler = 1
            /\ stream = [d \in Dates |-> d = 1]
            /\ dirs = {1}
            /\ fs = [d \in Dates |-> IF d = 1 THEN << <<>> >> ELSE <<>>]
            /\ stderr = {}
            /\ rotFails = 0
       ELSE /\ current_date = NoDate
            /\ current_handler = NoHandler
            /\ stream = [d \in Dates |-> FALSE]
            /\ dirs \in {{}, {1}}
            /\ fs = [d \in Dates |-> <<>>]
            /\ stderr = {<<"Error rotating", CtorRecord>>}
            /\ rotFails = 1

\* the wall clock passes midnight
Tick ==
    /\ clock < MaxDate
    /\ clock' = clock + 1
    /\ UNCHANGED <<current_date, current_handler, stream, lock, dirs, fs, evicted,
                   stderr, raiseExceptions, pc, nrec, today, fmtok, rlevel, hidx,
                   href, part, console, emitDate, failed, rotFails, afterFails>>
    /\ UNCHANGED <<lvars, svars, ovars>>

\* a caller invokes handler.emit(record) itself
EmitCall(t, f) ==
    /\ pc[t] = "idle"
    /\ nrec[t] < MaxRecords
    /\ nrec' = [nrec EXCEPT ![t] = @ + 1]
    /\ fmtok' = [fmtok EXCEPT ![t] = f]
    /\ hidx' = [hidx EXCEPT ![t] = 0]
    /\ pc' = [pc EXCEPT ![t] = "emit_lock"]
    /\ failed' = IF f THEN failed ELSE failed \cup {<<"format", <<t, nrec[t] + 1>>>>}
    /\ UNCHANGED <<clock, current_date, current_handler, stream, lock, dirs, fs,
                   evicted, stderr, raiseExceptions, today, rlevel, href, part,
                   console, emitDate, rotFails, afterFails>>
    /\ UNCHANGED <<lvars, svars, ovars>>

\* logger.log(lv, msg): a record is made when the logger is enabled for lv
LogCall(t, lv) ==
    /\ pc[t] = "idle"
    /\ nrec[t] < MaxRecords
    /\ nrec' = [nrec EXCEPT ![t] = @ + 1]
    /\ fmtok' = [fmtok EXCEPT ![t] = TRUE]
    /\ rlevel' = [rlevel EXCEPT ![t] = lv]
    /\ hidx' = [hidx EXCEPT ![t] = 1]
    /\ pc' = [pc EXCEPT ![t] = IF lv >= lg_level THEN "call_handlers" ELSE "idle"]
    /\ UNCHANGED <<clock, current_date, current_handler, stream, lock, dirs, fs,
                   evicted, stderr, raiseExceptions, today, href, part, console,
                   emitDate, failed, rotFails, afterFails>>
    /\ UNCHANGED <<lvars, svars, ovars>>

\* Logger.callHandlers: the next handler of logger.handlers gets the record when
\* record.levelno >= hdlr.level; the console sink prints it, the file sink is
\* entered through Handler.handle
CallHandler(t) ==
    /\ pc[t] = "call_handlers"
    /\ IF hidx[t] > Len(lg_handlers)
       THEN /\ pc' = [pc EXCEPT ![t] = "idle"]
            /\ UNCHANGED <<hidx, console>>
       ELSE IF rlevel[t] < lg_handlers[hidx[t]].level
       THEN /\ hidx' = [hidx EXCEPT ![t] = @ + 1]
            /\ UNCHANGED <<pc, console>>
       ELSE IF lg_handlers[hidx[t]].kind = "console"
       THEN /\ console' = [console EXCEPT ![Rec(t)] = @ + 1]
            /\ hidx' = [hidx EXCEPT ![t] = @ + 1]
            /\ UNCHANGED pc
       ELSE /\ pc' = [pc EXCEPT ![t] = "handle_lock"]
            /\ UNCHANGED <<hidx, console>>
    /\ UNCHANGED <<clock, current_date, current_handler, stream, lock, dirs, fs,
                   evicted, stderr, raiseExceptions, nrec, today, fmtok, rlevel,
                   href, part, emitDate, failed, rotFails, afterFails>>
    /\ UNCHANGED <<lvars, svars, ovars>>

\* Handler.handle: self.acquire() takes the `lock` attribute, then self.emit(record)
HandleAcquire(t) ==
    /\ pc[t] = "handle_lock"
    /\ LockAvailable
    /\ lock' = t
    /\ pc' = [pc EXCEPT ![t] = "emit_lock"]
    /\ UNCHANGED <<clock, current_date, current_handler, stream, dirs, fs, evicted,
                   stderr, raiseExceptions, nrec, today, fmtok, rlevel, hidx, href,
                   part, console, emitDate, failed, rotFails, afterFails>>
    /\ UNCHANGED <<lvars, svars, ovars>>

\* emit: `with self.lock:`
EmitAcquire(t) ==
    /\ pc[t] = "emit_lock"
    /\ LockAvailable
    /\ lock' = t
    /\ pc' = [pc EXCEPT ![t] = "rotate"]
    /\ acquired' = Append(acquired, Rec(t))
    /\ UNCHANGED <<clock, current_date, current_handler, stream, dirs, fs, evicted,
                   stderr, raiseExceptions, nrec, today, fmtok, rlevel, hidx, href,
                   part, console, emitDate, failed, rotFails, afterFails>>
    /\ UNCHANGED <<lvars, svars, cvars, wvars, stvars, pvars, yvars>>

\* _rotate_if_needed: read the date, return True when nothing is to be done
RotateCheck(t) ==
    /\ pc[t] = "rotate"
    /\ today' = [today EXCEPT ![t] = clock]
    /\ emitDate' = [emitDate EXCEPT ![Rec(t)] = clock]
    /\ pc' = [pc EXCEPT ![t] = IF NeedsRotation(clock) THEN "rot_close" ELSE "write"]
    /\ UNCHANGED <<clock, current_date, current_handler, stream, lock, dirs, fs,
                   evicted, stderr, raiseExceptions, nrec, fmtok, rlevel, hidx, href,
                   part, console, failed, rotFails, afterFails>>
    /\ UNCHANGED <<lvars, svars, ovars>>

\* _rotate_if_needed: close the old handler; a close error is only reported
RotateClose(t, ok) ==
    /\ pc[t] = "rot_close"
    /\ ok \/ current_handler # NoHandler
    /\ stream' = IF current_handler # NoHandler
                 THEN [stream EXCEPT ![current_handler] = FALSE]
                 ELSE stream
    /\ stderr' = IF ok THEN stderr ELSE stderr \cup {<<"Warning closing", Rec(t)>>}
    /\ pc' = [pc EXCEPT ![t] = "rot_mkdir"]
    /\ UNCHANGED <<clock, current_date, current_handler, lock, dirs, fs, evicted,
                   raiseExceptions, nrec, today, fmtok, rlevel, hidx, href, part,
                   console, emitDate, failed, rotFails, afterFails>>
    /\ UNCHANGED <<lvars, svars, ovars>>

\* the except branch of _rotate_if_needed: report on stderr, return False
RotateFailed(t) ==
    /\ stderr' = stderr \cup {<<"Error rotating", Rec(t)>>}
    /\ current_date' = FailedRotationDate(t)
    /\ failed' = failed \cup {<<"rotate", Rec(t)>>}
    /\ rotFails' = rotFails + 1
    /\ pc' = [pc EXCEPT ![t] = "fallback"]

\* _rotate_if_needed: today_path.mkdir(parents=True, exist_ok=True)
RotateMkdir(t, ok) ==
    /\ pc[t] = "rot_mkdir"
    /\ IF ok
       THEN /\ dirs' = dirs \cup {today[t]}
            /\ pc' = [pc EXCEPT ![t] = "rot_open"]
            /\ UNCHANGED <<stderr, current_date, failed, rotFails>>
       ELSE /\ RotateFailed(t)
            /\ UNCHANGED dirs
    /\ UNCHANGED <<clock, current_handler, stream, lock, fs, evicted,
                   raiseExceptions, nrec, today, fmtok, rlevel, hidx, href, part,
                   console, emitDate, afterFails>>
    /\ UNCHANGED <<lvars, svars, ovars>>

\* _rotate_if_needed: open the RotatingFileHandler of today, store it and the date
RotateOpen(t, ok) ==
    /\ pc[t] = "rot_open"
    /\ IF ok
       THEN /\ fs' = [fs EXCEPT ![today[t]] = OpenAppend(@)]
            /\ current_handler' = today[t]
            /\ stream' = [stream EXCEPT ![today[t]] = TRUE]
            /\ current_date' = today[t]
            /\ rotFails' = 0
            /\ afterFails' = [afterFails EXCEPT ![Rec(t)] = rotFails]
            /\ inner_formatter' = [inner_formatter EXCEPT ![today[t]] = formatter]
            /\ pc' = [pc EXCEPT ![t] = "write"]
            /\ UNCHANGED <<stderr, failed>>
       ELSE /\ RotateFailed(t)
            /\ UNCHANGED <<fs, current_handler, stream, afterFails, inner_formatter>>
    /\ UNCHANGED <<clock, lock, dirs, evicted, raiseExceptions, nrec, today, fmtok,
                   rlevel, hidx, href, part, console, emitDate>>
    /\ UNCHANGED <<lvars, svars, cvars, wvars, stvars, pvars, qvars, rvars, tvars, kvars,
                   formatter, linefmt>>

\* emit, rotation failed: print the formatted record to stderr; when formatting
\* raises, `except Exception: pass` drops it
EmitFallback(t) ==
    /\ pc[t] = "fallback"
    /\ stderr' = IF fmtok[t] THEN stderr \cup {<<"FALLBACK", Rec(t)>>} ELSE stderr
    /\ pc' = [pc EXCEPT ![t] = "unlock"]
    /\ UNCHANGED <<clock, current_date, current_handler, stream, lock, dirs, fs,
                   evicted, raiseExceptions, nrec, today, fmtok, rlevel, hidx, href,
                   part, console, emitDate, failed, rotFails, afterFails>>
    /\ UNCHANGED <<lvars, svars, ovars>>

\* what emit does when self.current_handler.emit(record) fails
InnerFailure(t, ok, kind) ==
    /\ failed' = failed \cup {<<IF ok THEN "format" ELSE kind, Rec(t)>>}
    /\ stderr' = IF InnerRaises(ok)
                 THEN (IF fmtok[t] THEN stderr \cup {<<"WRITE ERROR", Rec(t)>>} ELSE stderr)
                 ELSE stderr \cup HandleError(Rec(t))
    /\ pc' = [pc EXCEPT ![t] = "unlock"]

\* self.current_handler.emit(record), first half: RotatingFileHandler.emit
\* reopens a closed stream, formats the record and decides on a size rollover
InnerShouldRollover(t, ok) ==
    /\ pc[t] = "write"
    /\ current_handler # NoHandler
    /\ href' = [href EXCEPT ![t] = current_handler]
    /\ part' = [part EXCEPT ![t] = 1]
    /\ IF ok /\ fmtok[t]
       THEN /\ stream' = [stream EXCEPT ![current_handler] = TRUE]
            /\ fs' = [fs EXCEPT ![current_handler] = OpenAppend(@)]
            /\ pc' = [pc EXCEPT ![t] =
                        IF ShouldRoll(OpenAppend(fs[current_handler])[1])
                        THEN "rollover" ELSE "write_part"]
            /\ linefmt' = [linefmt EXCEPT ![Rec(t)] =
                             FormatUsed(inner_formatter[current_handler])]
            /\ UNCHANGED <<stderr, failed>>
       ELSE /\ InnerFailure(t, ok, "rollover")
            /\ UNCHANGED <<stream, fs, linefmt>>
    /\ UNCHANGED <<clock, current_date, current_handler, lock, dirs, evicted,
                   raiseExceptions, nrec, today, fmtok, rlevel, hidx, console,
                   emitDate, rotFails, afterFails>>
    /\ UNCHANGED <<lvars, svars, cvars, wvars, stvars, pvars, qvars, rvars, tvars, kvars,
                   formatter, inner_formatter>>

\* RotatingFileHandler.doRollover
InnerDoRollover(t) ==
    /\ pc[t] = "rollover"
    /\ fs' = [fs EXCEPT ![href[t]] = RolledFolder(OpenAppend(@), BackupCount)]
    /\ evicted' = evicted \cup RolledOut(fs[href[t]], BackupCount)
    /\ stream' = [stream EXCEPT ![href[t]] = TRUE]
    /\ pc' = [pc EXCEPT ![t] = "write_part"]
    /\ UNCHANGED <<clock, current_date, current_handler, lock, dirs, stderr,
                   raiseExceptions, nrec, today, fmtok, rlevel, hidx, href, part,
                   console, emitDate, failed, rotFails, afterFails>>
    /\ UNCHANGED <<lvars, svars, ovars>>

\* StreamHandler.emit: stream.write(msg + terminator), one unit at a time
InnerWrite(t, ok) ==
    /\ pc[t] = "write_part"
    /\ IF ok
       THEN /\ fs' = [fs EXCEPT ![href[t]] =
                        [OpenAppend(@) EXCEPT ![1] = Append(@, <<t, nrec[t], Parts[part[t]]>>)]]
            /\ part' = [part EXCEPT ![t] = IF part[t] = RecLen THEN 1 ELSE part[t] + 1]
            /\ pc' = [pc EXCEPT ![t] = IF part[t] = RecLen THEN "unlock" ELSE "write_part"]
            /\ UNCHANGED <<stderr, failed>>
       ELSE /\ InnerFailure(t, ok, "write")
            /\ part' = [part EXCEPT ![t] = 1]
            /\ UNCHANGED fs
    /\ UNCHANGED <<clock, current_date, current_handler, stream, lock, dirs, evicted,
                   raiseExceptions, nrec, today, fmtok, rlevel, hidx, href, console,
                   emitDate, rotFails, afterFails>>
    /\ UNCHANGED <<lvars, svars, ovars>>

\* leaving `with self.lock:`; emit returns to its caller, which for a record that
\* came through callHandlers is Handler.handle
EmitRelease(t) ==
    /\ pc[t] = "unlock"
    /\ lock' = NoThread
    /\ pc' = [pc EXCEPT ![t] = IF hidx[t] = 0 THEN "idle" ELSE "handle_release"]
    /\ UNCHANGED <<clock, current_date, current_handler, stream, dirs, fs, evicted,
                   stderr, raiseExceptions, nrec, today, fmtok, rlevel, hidx, href,
                   part, console, emitDate, failed, rotFails, afterFails>>
    /\ UNCHANGED <<lvars, svars, ovars>>

\* close() is called
CloseCall(t) ==
    /\ pc[t] = "idle"
    /\ pc' = [pc EXCEPT ![t] = "close_lock"]
    /\ UNCHANGED <<clock, current_date, current_handler, stream, lock, dirs, fs, evicted,
                   stderr, raiseExceptions, nrec, today, fmtok, rlevel, hidx, href,
                   part, console, emitDate, failed, rotFails, afterFails>>
    /\ UNCHANGED <<lvars, svars, ovars>>

\* close: `with self.lock:`
CloseAcquire(t) ==
    /\ pc[t] = "close_lock"
    /\ LockAvailable
    /\ lock' = t
    /\ pc' = [pc EXCEPT ![t] = "closing"]
    /\ UNCHANGED <<clock, current_date, current_handler, stream, dirs, fs, evicted,
                   stderr, raiseExceptions, nrec, today, fmtok, rlevel, hidx, href,
                   part, console, emitDate, failed, rotFails, afterFails>>
    /\ UNCHANGED <<lvars, svars, ovars>>

\* close: the current RotatingFileHandler is closed and forgotten, the lock is
\* released, Handler.close() unregisters the handler; current_date is kept
CloseHandler(t) ==
    /\ pc[t] = "closing"
    /\ stream' = IF current_handler # NoHandler
                 THEN [stream EXCEPT ![current_handler] = FALSE]
                 ELSE stream
    /\ current_handler' = NoHandler
    /\ lock' = NoThread
    /\ closed' = TRUE
    /\ pc' = [pc EXCEPT ![t] = "idle"]
    /\ UNCHANGED <<clock, current_date, dirs, fs, evicted, stderr, raiseExceptions,
                   nrec, today, fmtok, rlevel, hidx, href, part, console, emitDate,
                   failed, rotFails, afterFails>>
    /\ UNCHANGED <<lvars, svars, wvars, uvars>>

\* Handler.setFormatter(fmt): self.formatter = fmt
SetFormatter(f) ==
    /\ formatter' = f
    /\ UNCHANGED <<inner_formatter, linefmt>>
    /\ UNCHANGED <<hvars, lvars, svars, cvars, wvars, stvars, pvars, qvars, rvars, tvars, kvars>>

\* ------------------------------------------------------ the logger factory
\* no DailyRotatingFileHandler has been constructed and nothing was emitted
NoHandlerYet ==
    /\ clock = 1
    /\ raiseExceptions = TRUE
    /\ lock = NoThread
    /\ evicted = {}
    /\ pc = [t \in Threads |-> "idle"]
    /\ nrec = [t \in Threads |-> 0]
    /\ today = [t \in Threads |-> NoDate]
    /\ fmtok = [t \in Threads |-> TRUE]
    /\ rlevel = [t \in Threads |-> INFO]
    /\ hidx = [t \in Threads |-> 0]
    /\ href = [t \in Threads |-> NoHandler]
    /\ part = [t \in Threads |-> 1]
    /\ console = [r \in Records |-> 0]
    /\ emitDate = [r \in Records |-> NoDate]
    /\ afterFails = [r \in Records |-> 0]
    /\ failed = {}
    /\ current_date = NoDate
    /\ current_handler = NoHandler
    /\ stream = [d \in Dates |-> FALSE]
    /\ dirs = {}
    /\ fs = [d \in Dates |-> <<>>]
    /\ stderr = {}
    /\ rotFails = 0

\* logging.getLogger(name) before anybody configured it
UnconfiguredLogger ==
    /\ lg_handlers = <<>>
    /\ lg_level = NOTSET
    /\ lg_propagate = TRUE

\* mutant: the factory never finds the logger configured
HasHandlersNever == FALSE

\* `if logger.handlers:` / `if not logger.handlers:`
HasHandlers == lg_handlers # <<>>

\* a logger call at level lv never returns: the logger is enabled for lv and
\* callHandlers reaches a DailyRotatingFileHandler that takes the record, whose
\* emit then waits for the lock that Handler.handle holds (see SelfBlocked)
LogBlocks(lv) ==
    /\ lv >= lg_level
    /\ \E i \in 1..Len(lg_handlers) :
         lg_handlers[i].kind = "file" /\ lv >= lg_handlers[i].level

\* a logger call at level lv prints on a console sink: the logger is enabled for
\* lv and a StreamHandler of logger.handlers takes the record
ConsolePrints(lv) ==
    /\ lv >= lg_level
    /\ \E i \in 1..Len(lg_handlers) :
         lg_handlers[i].kind = "console" /\ lv >= lg_handlers[i].level

\* setup_logger(name, level, propagate) is called
SetupCall(t, lv, pr) ==
    /\ spc[t] = "idle"
    /\ ncall[t] < MaxCalls
    /\ ncall' = [ncall EXCEPT ![t] = @ + 1]
    /\ sarg' = [sarg EXCEPT ![t] = [level |-> lv, propagate |-> pr]]
    /\ spc' = [spc EXCEPT ![t] = "set_level"]
    /\ UNCHANGED <<hvars, lvars, basedir, ovars>>

\* get_logger(name) is called
GetLoggerCall(t) ==
    /\ spc[t] = "idle"
    /\ ncall[t] < MaxCalls
    /\ ncall' = [ncall EXCEPT ![t] = @ + 1]
    /\ spc' = [spc EXCEPT ![t] = "get_check"]
    /\ UNCHANGED <<hvars, lvars, sarg, basedir, ovars>>

\* get_logger: return the logger when it has handlers, else setup_logger(name)
GetLoggerCheck(t) ==
    /\ spc[t] = "get_check"
    /\ IF HasHandlers
       THEN /\ spc' = [spc EXCEPT ![t] = "idle"]
            /\ UNCHANGED sarg
       ELSE /\ spc' = [spc EXCEPT ![t] = "set_level"]
            /\ sarg' = [sarg EXCEPT ![t] = [level |-> INFO, propagate |-> FALSE]]
    /\ UNCHANGED <<hvars, lvars, ncall, basedir, ovars>>

\* setup_logger: logger = logging.getLogger(name); logger.setLevel(level)
SetupSetLevel(t) ==
    /\ spc[t] = "set_level"
    /\ lg_level' = sarg[t].level
    /\ spc' = [spc EXCEPT ![t] = "set_propagate"]
    /\ UNCHANGED <<hvars, lg_handlers, lg_propagate, sarg, ncall, basedir, ovars>>

\* setup_logger: logger.propagate = propagate
SetupSetPropagate(t) ==
    /\ spc[t] = "set_propagate"
    /\ lg_propagate' = sarg[t].propagate
    /\ spc' = [spc EXCEPT ![t] = "check"]
    /\ UNCHANGED <<hvars, lg_handlers, lg_level, sarg, ncall, basedir, ovars>>

\* setup_logger: `if logger.handlers: return logger`
SetupCheck(t) ==
    /\ spc[t] = "check"
    /\ spc' = [spc EXCEPT ![t] = IF HasHandlers THEN "idle" ELSE "add_console"]
    /\ UNCHANGED <<hvars, lvars, sarg, ncall, basedir, ovars>>

\* setup_logger: the console handler is made and attached
SetupAddConsole(t) ==
    /\ spc[t] = "add_console"
    /\ lg_handlers' = Append(lg_handlers, [kind |-> "console", level |-> sarg[t].level])
    /\ spc' = [spc EXCEPT ![t] = "mkdir"]
    /\ UNCHANGED <<hvars, lg_level, lg_propagate, sarg, ncall, basedir, ovars>>

\* setup_logger: app_settings.get_log_dir(), log_path.mkdir(parents, exist_ok)
SetupMkdir(t, ok) ==
    /\ spc[t] = "mkdir"
    /\ ok \/ ~basedir
    /\ basedir' = (basedir \/ ok)
    /\ dirfail' = (dirfail \/ ~ok)
    /\ spc' = [spc EXCEPT ![t] = IF ok THEN "add_file" ELSE "warn"]
    /\ UNCHANGED <<hvars, lvars, sarg, ncall, cvars, warned, uvars>>

\* DailyRotatingFileHandler.__init__ raises: never, since _rotate_if_needed
\* catches the failure of the dated folder or of the file and returns False
CtorRaises(ok) == FALSE

\* setup_logger: the DailyRotatingFileHandler is constructed, its initial
\* rotation creating the dated folder (ok) or failing to; unless the constructor
\* raises, the handler is given the formatter and attached
SetupAddFile(t, ok) ==
    /\ spc[t] = "add_file"
    /\ dirfail' = (dirfail \/ ~ok)
    /\ IF CtorRaises(ok)
       THEN /\ spc' = [spc EXCEPT ![t] = "warn"]
            /\ UNCHANGED lg_handlers
       ELSE /\ lg_handlers' = Append(lg_handlers, [kind |-> "file", level |-> sarg[t].level])
            /\ spc' = [spc EXCEPT ![t] = "debug"]
    /\ UNCHANGED <<hvars, lg_level, lg_propagate, sarg, ncall, basedir, cvars, warned, uvars>>

\* setup_logger: logger.debug("Daily rotating file handler configured ..."), return
SetupDebug(t) ==
    /\ spc[t] = "debug"
    /\ spc' = [spc EXCEPT ![t] = IF LogBlocks(DEBUG) THEN "blocked" ELSE "idle"]
    /\ UNCHANGED <<hvars, lvars, sarg, ncall, basedir, ovars>>

\* setup_logger, except branch: two logger.warning calls, return
SetupWarn(t) ==
    /\ spc[t] = "warn"
    /\ spc' = [spc EXCEPT ![t] = IF LogBlocks(WARNING) THEN "blocked" ELSE "idle"]
    /\ warned' = (warned \/ ConsolePrints(WARNING))
    /\ UNCHANGED <<hvars, lvars, sarg, ncall, basedir, cvars, dirfail, uvars>>

\* -------------------------------------------------------- StructuredLogger
\* mutant: a context kept per calling task
ContextOfTask(t) ==
    SelectSeq(context, LAMBDA item : t \in setBy[item[1]])

\* self._context: one dict per StructuredLogger instance, whoever calls
ContextOf(t) == context

\* mutant: the ambient value wins on a key collision
AllFieldsAmbientWins(ctx, fields) == DictUpdate(fields, ctx)

\* all_fields = {**self._context, **fields}
AllFields(ctx, fields) == DictUpdate(ctx, fields)

\* mutant: the per-call fields are merged into the context itself
ContextAfterLogLeaking(ctx, fields) == DictUpdate(ctx, fields)

\* self._context after a log call: the merge built a new dict
ContextAfterLog(ctx, fields) == ctx

\* f"{k}={v}" can be evaluated for every item
Formattable(fields) == \A i \in 1..Len(fields) : fields[i][2] # Unprintable

\* " ".join(f"{k}={v}" for k, v in fields.items()), as a sequence of text pieces
RECURSIVE JoinFields(_)
JoinFields(fields) ==
    IF Len(fields) = 1
    THEN <<fields[1][1], "=", Str(fields[1][2])>>
    ELSE <<fields[1][1], "=", Str(fields[1][2]), " ">> \o JoinFields(Tail(fields))

\* _format_fields
FormatFields(fields) ==
    IF fields = <<>> THEN <<>> ELSE <<" | ">> \o JoinFields(fields)

\* set_context(k=v); several keywords act as several such calls in a row
SetContext(t, k, v) ==
    /\ context' = DictUpdate(context, << <<k, v>> >>)
    /\ ambient' = {item \in ambient : item[1] # k} \cup {<<k, v>>}
    /\ setBy' = [setBy EXCEPT ![k] = @ \cup {t}]
    /\ mine' = [mine EXCEPT ![t] = @ \cup {k}]
    /\ UNCHANGED <<lastmsg, sraised>>
    /\ UNCHANGED <<hvars, lvars, svars, cvars, wvars, pvars, xvars>>

\* clear_context()
ClearContext(t) ==
    /\ context' = <<>>
    /\ ambient' = {}
    /\ setBy' = [k \in Keys |-> {}]
    /\ mine' = [mine EXCEPT ![t] = {}]
    /\ UNCHANGED <<lastmsg, sraised>>
    /\ UNCHANGED <<hvars, lvars, svars, cvars, wvars, pvars, xvars>>

\* debug/info/warning through _log, error/critical with the same three lines of
\* their own: merge, format, hand f"{msg}{formatted_fields}" to self._logger; an
\* exception raised while formatting leaves the call
StructLog(t, lv, fields) ==
    /\ LET all == AllFields(ContextOf(t), fields) IN
         IF Formattable(all)
         THEN /\ lastmsg' =
                    [task |-> t, level |-> lv,
                     text |-> <<"msg">> \o FormatFields(all),
                     fields |-> fields,
                     foreign |-> {k \in DictKeys(ContextOf(t)) \ DictKeys(fields) :
                                    t \notin setBy[k]},
                     missing |-> {k \in mine[t] : k \notin DictKeys(all)}]
              /\ sraised' = sraised \ {t}
         ELSE /\ sraised' = sraised \cup {t}
              /\ UNCHANGED lastmsg
    /\ context' = ContextAfterLog(context, fields)
    /\ UNCHANGED <<ambient, setBy, mine>>
    /\ UNCHANGED <<hvars, lvars, svars, cvars, wvars, pvars, xvars>>

\* --------------------------------------------------------- log_performance
\* how the body of the with statement can end: normally, with an exception
\* derived from Exception, or with one derived from BaseException only
\* (KeyboardInterrupt, SystemExit, asyncio.CancelledError)
BodyOutcomes == {"normal", "exception", "base_exception"}

\* `except Exception:`
Caught(outcome) == outcome = "exception"

\* mutant: `elapsed_ms > threshold_ms`
SlowAtStrict(ms, th) == ms > th

\* `elapsed_ms >= threshold_ms`
SlowAt(ms, th) == ms >= th

\* mutant: the except branch does not re-raise
ExitSwallowing(outcome) == "normal"

\* what leaves the context manager: the bare `raise` re-raises the caught
\* exception, an uncaught one passes through the finally block
ExitOf(outcome) == IF outcome = "normal" THEN "normal" ELSE "body_exception"

\* context_str is not empty: `if log_args and context_fields:`
ContextShown == pargs.log_args /\ pargs.fields

\* `with log_performance(logger, operation, threshold_ms, log_args, **context_fields):`
\* start = time.perf_counter(), context_str is built, the body is entered
PerfEnter(th, la, cf) ==
    /\ ppc = "idle"
    /\ pargs' = [threshold |-> th, log_args |-> la, fields |-> cf]
    /\ pelapsed' = 0
    /\ ppc' = "body"
    /\ UNCHANGED <<pbody, plog, pexit>>
    /\ UNCHANGED <<hvars, lvars, svars, cvars, wvars, stvars, xvars>>

\* a millisecond passes on time.perf_counter()
PerfTick ==
    /\ ppc \in {"body", "except", "finally"}
    /\ pelapsed < MaxElapsed
    /\ pelapsed' = pelapsed + 1
    /\ UNCHANGED <<ppc, pargs, pbody, plog, pexit>>
    /\ UNCHANGED <<hvars, lvars, svars, cvars, wvars, stvars, xvars>>

\* the body ends (`yield` returns or raises)
PerfBody(outcome) ==
    /\ ppc = "body"
    /\ pbody' = outcome
    /\ ppc' = IF Caught(outcome) THEN "except" ELSE "finally"
    /\ UNCHANGED <<pargs, pelapsed, plog, pexit>>
    /\ UNCHANGED <<hvars, lvars, svars, cvars, wvars, stvars, xvars>>

\* except Exception: logger.error(f"{operation} FAILED after {elapsed_ms:.2f}ms
\* {context_str}", exc_info=True); raise
PerfExcept ==
    /\ ppc = "except"
    /\ plog' = Append(plog, [level |-> ERROR, kind |-> "FAILED", ms |-> pelapsed,
                             threshold |-> <<>>, ctx |-> ContextShown])
    /\ ppc' = IF LogBlocks(ERROR) THEN "blocked" ELSE "finally"
    /\ UNCHANGED <<pargs, pbody, pelapsed, pexit>>
    /\ UNCHANGED <<hvars, lvars, svars, cvars, wvars, stvars, xvars>>

\* finally: logger.warning("... took ...ms (SLOW - threshold: ...ms)...") or
\* logger.debug("... completed in ...ms..."); then control leaves the block
PerfFinally ==
    /\ ppc = "finally"
    /\ IF SlowAt(pelapsed, pargs.threshold)
       THEN /\ plog' = Append(plog, [level |-> WARNING, kind |-> "SLOW", ms |-> pelapsed,
                                     threshold |-> <<pargs.threshold>>, ctx |-> ContextShown])
            /\ ppc' = IF LogBlocks(WARNING) THEN "blocked" ELSE "done"
            /\ pexit' = IF LogBlocks(WARNING) THEN pexit ELSE ExitOf(pbody)
       ELSE /\ plog' = Append(plog, [level |-> DEBUG, kind |-> "completed", ms |-> pelapsed,
                                     threshold |-> <<>>, ctx |-> ContextShown])
            /\ ppc' = IF LogBlocks(DEBUG) THEN "blocked" ELSE "done"
            /\ pexit' = IF LogBlocks(DEBUG) THEN pexit ELSE ExitOf(pbody)
    /\ UNCHANGED <<pargs, pbody, pelapsed>>
    /\ UNCHANGED <<hvars, lvars, svars, cvars, wvars, stvars, xvars>>

\* ------------------------------------------------------- specifications
\* Spec: callers invoke emit directly; folder creation, file opening, closing,
\* writing and formatting may fail
Init ==
    /\ \E ok \in BOOLEAN, re \in BOOLEAN : InitHandler(ok, re)
    /\ ConfiguredLogger
    /\ FactoryIdle
    /\ NotClosed /\ NoSetupHistory /\ UtilitiesIdle

Next ==
    \/ Tick
    \/ \E t \in Threads :
         \/ \E f \in BOOLEAN : EmitCall(t, f)
         \/ EmitAcquire(t)
         \/ RotateCheck(t)
         \/ \E ok \in BOOLEAN : RotateClose(t, ok)
         \/ \E ok \in BOOLEAN : RotateMkdir(t, ok)
         \/ \E ok \in BOOLEAN : RotateOpen(t, ok)
         \/ EmitFallback(t)
         \/ \E ok \in BOOLEAN : InnerShouldRollover(t, ok)
         \/ InnerDoRollover(t)
         \/ \E ok \in BOOLEAN : InnerWrite(t, ok)
         \/ EmitRelease(t)

Spec == Init /\ [][Next]_vars

\* SpecEmit: callers invoke emit directly; nothing fails
InitEmit ==
    /\ InitHandler(TRUE, TRUE)
    /\ ConfiguredLogger
    /\ FactoryIdle
    /\ NotClosed /\ NoSetupHistory /\ UtilitiesIdle

NextEmit ==
    \/ Tick
    \/ \E t \in Threads :
         \/ EmitCall(t, TRUE)
         \/ EmitAcquire(t)
         \/ RotateCheck(t)
         \/ RotateClose(t, TRUE)
         \/ RotateMkdir(t, TRUE)
         \/ RotateOpen(t, TRUE)
         \/ InnerShouldRollover(t, TRUE)
         \/ InnerDoRollover(t)
         \/ InnerWrite(t, TRUE)
         \/ EmitRelease(t)

SpecEmit == InitEmit /\ [][NextEmit]_vars

\* SpecLog: callers log through the configured logger (Logger.callHandlers,
\* Handler.handle) or invoke emit directly; nothing fails
NextLog ==
    \/ Tick
    \/ \E t \in Threads :
         \/ \E lv \in {DEBUG, INFO} : LogCall(t, lv)
         \/ CallHandler(t)
         \/ HandleAcquire(t)
         \/ EmitCall(t, TRUE)
         \/ EmitAcquire(t)
         \/ RotateCheck(t)
         \/ RotateClose(t, TRUE)
         \/ RotateMkdir(t, TRUE)
         \/ RotateOpen(t, TRUE)
         \/ InnerShouldRollover(t, TRUE)
         \/ InnerDoRollover(t)
         \/ InnerWrite(t, TRUE)
         \/ EmitRelease(t)

SpecLog == InitEmit /\ [][NextLog]_vars

\* SpecClose: one caller emits records and closes the handler, in any order;
\* nothing fails
NextClose ==
    \/ Tick
    \/ EmitCall(1, TRUE)
    \/ EmitAcquire(1)
    \/ RotateCheck(1)
    \/ RotateClose(1, TRUE)
    \/ RotateMkdir(1, TRUE)
    \/ RotateOpen(1, TRUE)
    \/ InnerShouldRollover(1, TRUE)
    \/ InnerDoRollover(1)
    \/ InnerWrite(1, TRUE)
    \/ EmitRelease(1)
    \/ CloseCall(1)
    \/ CloseAcquire(1)
    \/ CloseHandler(1)

SpecClose == InitEmit /\ [][NextClose]_vars

\* SpecSetup: threads call setup_logger and get_logger for one logger name
InitSetup ==
    /\ NoHandlerYet
    /\ UnconfiguredLogger
    /\ spc = [t \in Threads |-> "idle"]
    /\ sarg = [t \in Threads |-> [level |-> INFO, propagate |-> FALSE]]
    /\ ncall = [t \in Threads |-> 0]
    /\ basedir \in BOOLEAN
    /\ NotClosed /\ NoSetupHistory /\ UtilitiesIdle

FactoryStep(t) ==
    \/ \E lv \in Levels, pr \in BOOLEAN : SetupCall(t, lv, pr)
    \/ GetLoggerCall(t)
    \/ GetLoggerCheck(t)
    \/ SetupSetLevel(t)
    \/ SetupSetPropagate(t)
    \/ SetupCheck(t)
    \/ SetupAddConsole(t)
    \/ \E ok \in BOOLEAN : SetupMkdir(t, ok)
    \/ \E ok \in BOOLEAN : SetupAddFile(t, ok)
    \/ SetupDebug(t)
    \/ SetupWarn(t)

NextSetup == \E t \in Threads : FactoryStep(t)

SpecSetup == InitSetup /\ [][NextSetup]_vars

\* SpecSeq: one thread makes its factory calls one after the other
NextSeq == FactoryStep(1)

SpecSeq == InitSetup /\ [][NextSeq]_vars

\* SpecStruct: one task uses a StructuredLogger
NextStruct ==
    \/ \E k \in Keys, v \in FieldValues : SetContext(1, k, v)
    \/ ClearContext(1)
    \/ \E lv \in {INFO, ERROR}, fields \in Kwargs : StructLog(1, lv, fields)

SpecStruct == InitEmit /\ [][NextStruct]_vars

\* the context key a task sets in SpecShared
OwnKey(t) == IF t = 1 THEN "a" ELSE "b"

\* SpecShared: concurrent tasks share one StructuredLogger, each setting its own
\* context key; a task runs without interruption between two awaits
NextShared ==
    \E t \in Threads :
        \/ SetContext(t, OwnKey(t), 1)
        \/ ClearContext(t)
        \/ StructLog(t, INFO, <<>>)

SpecShared == InitEmit /\ [][NextShared]_vars

\* the logger as setup_logger leaves it when the base directory cannot be made
ConsoleOnlyLogger ==
    /\ lg_handlers = << [kind |-> "console", level |-> INFO] >>
    /\ lg_level = INFO
    /\ lg_propagate = FALSE

\* SpecPerf: one log_performance block around a body, on a logger that
\* setup_logger configured with or without the file sink
InitPerf ==
    /\ InitHandler(TRUE, TRUE)
    /\ ConfiguredLogger \/ ConsoleOnlyLogger
    /\ FactoryIdle
    /\ NotClosed /\ NoSetupHistory /\ UtilitiesIdle

NextPerf ==
    \/ \E th \in 0..MaxElapsed, la \in BOOLEAN, cf \in BOOLEAN : PerfEnter(th, la, cf)
    \/ PerfTick
    \/ \E outcome \in BodyOutcomes : PerfBody(outcome)
    \/ PerfExcept
    \/ PerfFinally

SpecPerf == InitPerf /\ [][NextPerf]_vars

\* SpecFmt: the handler as setup_logger prepares it, constructed and then given
\* log_format with setFormatter; after that records are emitted through it
\* across midnights; nothing fails
NextFmt ==
    \/ formatter = NoFormatter /\ SetFormatter(LogFormat)
    \/ formatter # NoFormatter /\ NextEmit

SpecFmt == InitEmit /\ [][NextFmt]_vars

\* ---------------------------------------------------- RateLimiterMiddleware
\* str.startswith on paths
StartsWith(p, q) == Len(q) <= Len(p) /\ SubSeq(p, 1, Len(q)) = q

\* dispatch: `any(request.url.path.startswith(path) for path in self.exclude_paths)`
Excluded(path) == \E q \in exclude_paths : StartsWith(path, q)

\* _check_rate_limit: the client's timestamps with req_time > now - window_seconds
ValidRequests(c) ==
    LET InWindow(ts) == ts > rnow - window_seconds
    IN  SelectSeq(requests_store[c], InWindow)

\* _check_rate_limit: `if len(valid_requests) >= self.max_requests: return False, 0`
IsAllowed(c) == ~(Len(ValidRequests(c)) >= max_requests)

\* mutant: a rejected request is recorded as well
StoreAfterCheckRecordingAll(c) == Append(ValidRequests(c), rnow)

\* _check_rate_limit: the client's list after the call; `now` is appended only
\* when the request is allowed
StoreAfterCheck(c) ==
    IF IsAllowed(c) THEN Append(ValidRequests(c), rnow) ELSE ValidRequests(c)

\* _periodic_cleanup, once cleanup_interval has passed: every client's list is
\* filtered to the window, clients left with an empty list are deleted
CleanedStore ==
    [c \in Clients |->
        LET InWindow(ts) == ts > rnow - window_seconds
        IN  SelectSeq(requests_store[c], InWindow)]

InFlight == {c \in Clients : inflight[c] # NoRequest}

\* datetime.now() advances, by a second or by a cleanup interval
RateTick(dt) ==
    /\ IF dt = cleanup_interval
       THEN rnow < cleanup_interval
       ELSE rnow % cleanup_interval < MaxNow
    /\ rnow' = rnow + dt
    /\ UNCHANGED <<max_requests, window_seconds, exclude_paths, requests_store,
                   last_cleanup, inflight, answers>>
    /\ UNCHANGED <<hvars, lvars, svars, cvars, wvars, stvars, pvars, qvars, fvars, tvars, kvars>>

\* dispatch up to its first await or return: an excluded path goes to call_next
\* at once; otherwise _check_rate_limit runs and the request is answered 429 or
\* goes to call_next
RateDispatch(c, path) ==
    /\ inflight[c] = NoRequest
    /\ Len(answers) + Cardinality(InFlight) < MaxRequests
    /\ IF Excluded(path)
       THEN /\ inflight' = [inflight EXCEPT ![c] =
                              [path |-> path, at |-> rnow, checked |-> FALSE, remaining |-> 0]]
            /\ UNCHANGED <<requests_store, answers>>
       ELSE /\ requests_store' = [requests_store EXCEPT ![c] = StoreAfterCheck(c)]
            /\ IF IsAllowed(c)
               THEN /\ inflight' = [inflight EXCEPT ![c] =
                                      [path |-> path, at |-> rnow, checked |-> TRUE,
                                       remaining |-> max_requests - Len(ValidRequests(c)) - 1]]
                    /\ UNCHANGED answers
               ELSE /\ answers' = Append(answers,
                                      [client |-> c, path |-> path, at |-> rnow,
                                       status |-> 429, retry_after |-> <<window_seconds>>,
                                       remaining |-> <<0>>, passed |-> FALSE])
                    /\ UNCHANGED inflight
    /\ UNCHANGED <<max_requests, window_seconds, exclude_paths, last_cleanup, rnow>>
    /\ UNCHANGED <<hvars, lvars, svars, cvars, wvars, stvars, pvars, qvars, fvars, tvars, kvars>>

\* call_next returns the application's response; for a checked request the
\* X-RateLimit headers are set and _periodic_cleanup runs; the response is returned
RateRespond(c) ==
    /\ inflight[c] # NoRequest
    /\ answers' = Append(answers,
                      [client |-> c, path |-> inflight[c].path, at |-> inflight[c].at,
                       status |-> 200, retry_after |-> <<>>,
                       remaining |-> IF inflight[c].checked
                                     THEN <<inflight[c].remaining>> ELSE <<>>,
                       passed |-> TRUE])
    /\ inflight' = [inflight EXCEPT ![c] = NoRequest]
    /\ IF inflight[c].checked /\ ~(rnow - last_cleanup < cleanup_interval)
       THEN /\ requests_store' = CleanedStore
            /\ last_cleanup' = rnow
       ELSE UNCHANGED <<requests_store, last_cleanup>>
    /\ UNCHANGED <<max_requests, window_seconds, exclude_paths, rnow>>
    /\ UNCHANGED <<hvars, lvars, svars, cvars, wvars, stvars, pvars, qvars, fvars, tvars, kvars>>

\* SpecRate: clients send requests to /test and /health through a middleware
\* built with some max_requests, window_seconds and exclude_paths
InitRate ==
    /\ InitHandler(TRUE, TRUE)
    /\ ConfiguredLogger
    /\ FactoryIdle
    /\ NotClosed /\ NoSetupHistory
    /\ StructIdle /\ PerfIdle /\ NothingAcquired /\ FormatterUnset
    /\ RetryIdle /\ CacheIdle
    /\ RateInit

NextRate ==
    \/ \E dt \in {1, cleanup_interval} : RateTick(dt)
    \/ \E c \in Clients, path \in Paths : RateDispatch(c, path)
    \/ \E c \in Clients : RateRespond(c)

SpecRate == InitRate /\ [][NextRate]_vars

\* ------------------------------------------------------------ retry helpers
\* range(max_retries + 1) starts at 0, range(1, max_attempts + 1) at 1
FirstAttempt(kind) == IF kind \in BackoffKinds THEN 0 ELSE 1

\* the for loop has a value for `attempt`
InRange(a, limit) == a <= limit

\* mutant: the last attempt is recognised one attempt too late
IsLastAttemptLate(a, limit) == a = limit + 1

\* `if attempt == max_retries:`
IsLastAttempt(a, limit) == a = limit

\* `if attempt < max_attempts:`
HasMoreAttempts(a, limit) == a < limit

\* `delay = min(delay * backoff_factor, max_delay)`
NextDelay(d) == Min(d * rargs.backoff_factor, rargs.max_delay)

\* what the helper sleeps before the next attempt: the local `delay` of the
\* backoff wrappers, the `delay` argument of the until-success functions,
\* 5 * (2 ** (attempt - 1)) in Service._execute_with_retries
SleepFor ==
    IF rkind \in BackoffKinds THEN delay
    ELSE IF rkind = "_execute_with_retries" THEN 5 * (2 ^ (attempt - 1))
    ELSE rargs.initial_delay

\* retry_async runs inside `with log_performance(...)`: leaving it logs the
\* ERROR record when an exception passes and then the WARNING or DEBUG record
LeaveBlocks(kind, raised, slow) ==
    /\ kind = "retry_async"
    /\ \/ raised /\ LogBlocks(ERROR)
       \/ LogBlocks(IF slow THEN WARNING ELSE DEBUG)

\* control leaves the helper, returning (from = 0: None, the loop ran out) or
\* raising what invocation `from` returned or raised
RetryLeave(kind, how, from, slow) ==
    /\ rpc' = IF LeaveBlocks(kind, how = "raised", slow) THEN "blocked" ELSE "done"
    /\ rexit' = IF LeaveBlocks(kind, how = "raised", slow) THEN rexit
                ELSE [how |-> how, from |-> from]

\* a logger call of the helper does not return (see LogBlocks)
RetryBlock ==
    /\ rpc' = "blocked"
    /\ UNCHANGED rexit

\* the wrapper made by retry_with_exponential_backoff or retry_async is called
BackoffCall(kind, n, d0, f, dmax, slow) ==
    /\ rpc = "idle"
    /\ rkind' = kind
    /\ rargs' = [limit |-> n, initial_delay |-> d0, backoff_factor |-> f, max_delay |-> dmax]
    /\ attempt' = FirstAttempt(kind)
    /\ delay' = d0
    /\ IF InRange(FirstAttempt(kind), n)
       THEN rpc' = "call" /\ UNCHANGED rexit
       ELSE RetryLeave(kind, "returned", 0, slow)
    /\ UNCHANGED <<invoked, slept>>
    /\ UNCHANGED <<hvars, lvars, svars, cvars, wvars, stvars, pvars, qvars, rvars, fvars, kvars>>

\* one pass of the wrapper's loop: the function is invoked; its result is
\* returned; a listed exception is re-raised on the last attempt and otherwise
\* followed by a warning, a sleep and the next delay; any other exception
\* propagates
BackoffAttempt(outcome, slow) ==
    /\ rpc = "call"
    /\ rkind \in BackoffKinds
    /\ invoked' = Append(invoked, outcome)
    /\ IF outcome = "ok"
       THEN /\ RetryLeave(rkind, "returned", Len(invoked) + 1, slow)
            /\ UNCHANGED <<attempt, delay, slept>>
       ELSE IF outcome = "unlisted"
       THEN /\ RetryLeave(rkind, "raised", Len(invoked) + 1, slow)
            /\ UNCHANGED <<attempt, delay, slept>>
       ELSE IF IsLastAttempt(attempt, rargs.limit)
       THEN /\ IF LogBlocks(ERROR)
               THEN RetryBlock
               ELSE RetryLeave(rkind, "raised", Len(invoked) + 1, slow)
            /\ UNCHANGED <<attempt, delay, slept>>
       ELSE IF LogBlocks(WARNING)
       THEN /\ RetryBlock
            /\ UNCHANGED <<attempt, delay, slept>>
       ELSE /\ slept' = Append(slept, SleepFor)
            /\ delay' = NextDelay(delay)
            /\ attempt' = attempt + 1
            /\ IF InRange(attempt + 1, rargs.limit)
               THEN rpc' = "call" /\ UNCHANGED rexit
               ELSE RetryLeave(rkind, "returned", 0, slow)
    /\ UNCHANGED <<rkind, rargs>>
    /\ UNCHANGED <<hvars, lvars, svars, cvars, wvars, stvars, pvars, qvars, rvars, fvars, kvars>>

\* retry_until_success, retry_sync_until_success or Service._execute_with_retries
\* is called
UntilCall(kind, n, d) ==
    /\ rpc = "idle"
    /\ rkind' = kind
    /\ rargs' = [limit |-> n, initial_delay |-> d, backoff_factor |-> 1, max_delay |-> d]
    /\ attempt' = FirstAttempt(kind)
    /\ delay' = d
    /\ IF InRange(FirstAttempt(kind), n)
       THEN rpc' = "call" /\ UNCHANGED rexit
       ELSE RetryLeave(kind, "returned", 0, FALSE)
    /\ UNCHANGED <<invoked, slept>>
    /\ UNCHANGED <<hvars, lvars, svars, cvars, wvars, stvars, pvars, qvars, rvars, fvars, kvars>>

\* one pass of the loop: logger.info, the function is invoked; on success
\* logger.info and return; on an Exception logger.error, then a sleep when
\* attempts are left and `raise` otherwise; any other exception propagates
UntilAttempt(outcome) ==
    /\ rpc = "call"
    /\ rkind \in UntilKinds
    /\ IF LogBlocks(INFO)
       THEN /\ RetryBlock
            /\ UNCHANGED <<invoked, attempt, slept>>
       ELSE /\ invoked' = Append(invoked, outcome)
            /\ IF outcome = "ok"
               THEN /\ RetryLeave(rkind, "returned", Len(invoked) + 1, FALSE)
                    /\ UNCHANGED <<attempt, slept>>
               ELSE IF outcome = "unlisted"
               THEN /\ RetryLeave(rkind, "raised", Len(invoked) + 1, FALSE)
                    /\ UNCHANGED <<attempt, slept>>
               ELSE IF LogBlocks(ERROR)
               THEN /\ RetryBlock
                    /\ UNCHANGED <<attempt, slept>>
               ELSE IF HasMoreAttempts(attempt, rargs.limit)
               THEN /\ slept' = Append(slept, SleepFor)
                    /\ attempt' = attempt + 1
                    /\ IF InRange(attempt + 1, rargs.limit)
                       THEN rpc' = "call" /\ UNCHANGED rexit
                       ELSE RetryLeave(rkind, "returned", 0, FALSE)
               ELSE /\ RetryLeave(rkind, "raised", Len(invoked) + 1, FALSE)
                    /\ UNCHANGED <<attempt, slept>>
    /\ UNCHANGED <<rkind, rargs, delay>>
    /\ UNCHANGED <<hvars, lvars, svars, cvars, wvars, stvars, pvars, qvars, rvars, fvars, kvars>>

\* SpecRetry: one call of a retry helper around a function that succeeds or
\* raises at each invocation, on a logger that setup_logger configured with or
\* without the file sink
InitRetry ==
    /\ InitHandler(TRUE, TRUE)
    /\ ConfiguredLogger \/ ConsoleOnlyLogger
    /\ FactoryIdle
    /\ NotClosed /\ NoSetupHistory /\ UtilitiesIdle

NextRetry ==
    \/ \E kind \in BackoffKinds, n \in (-1)..MaxRetries, d0 \in 1..MaxDelay,
          f \in 1..MaxFactor, dmax \in 1..MaxDelay, slow \in BOOLEAN :
            BackoffCall(kind, n, d0, f, dmax, slow)
    \/ \E outcome \in Outcomes, slow \in BOOLEAN : BackoffAttempt(outcome, slow)
    \/ \E kind \in UntilKinds, n \in (-1)..MaxRetries, d \in 1..MaxDelay : UntilCall(kind, n, d)
    \/ \E outcome \in Outcomes : UntilAttempt(outcome)

SpecRetry == InitRetry /\ [][NextRetry]_vars

\* ---------------------------------------------------------------- SimpleCache
CacheMethods == {"get", "set", "delete", "clear", "cleanup_expired"}

\* the ttl_seconds given to set
Ttl == 1

CachedKeys(c) == {c[i].key : i \in 1..Len(c)}

\* `if self._max_size and ...`: None and 0 are both false
Truthy(n) == n # 0

\* CacheEntry.is_expired: datetime.now() > self.expires_at
IsExpired(e) == cnow > e.expires_at

\* min(self._cache.keys(), key=lambda k: self._cache[k].created_at): the first
\* key, in the order of the dict, among those with the least created_at
OldestIndex(c) ==
    CHOOSE i \in 1..Len(c) :
        \A j \in 1..Len(c) :
            \/ c[i].created_at < c[j].created_at
            \/ c[i].created_at = c[j].created_at /\ i <= j

\* del d[key] / d.pop(key, None)
Without(c, keys) ==
    LET Kept(e) == e.key \notin keys IN SelectSeq(c, Kept)

\* set: the keys it deletes before storing the entry
Evicted(c, key) ==
    IF Truthy(max_size) /\ Len(c) >= max_size /\ key \notin CachedKeys(c)
    THEN {c[OldestIndex(c)].key}
    ELSE {}

\* self._cache[key] = CacheEntry(value, ttl_seconds): a key already in the dict
\* keeps its place
Stored(c, key) ==
    LET entry == [key |-> key, created_at |-> cnow, expires_at |-> cnow + Ttl]
    IN  IF key \in CachedKeys(c)
        THEN [i \in 1..Len(c) |-> IF c[i].key = key THEN entry ELSE c[i]]
        ELSE Append(c, entry)

\* datetime.now() advances
CacheTick ==
    /\ cnow < MaxClock
    /\ cnow' = cnow + 1
    /\ UNCHANGED <<max_size, cache, cache_lock, cpc, lastset>>
    /\ UNCHANGED <<hvars, lvars, svars, cvars, wvars, stvars, pvars, qvars, rvars, fvars, tvars>>

\* a thread calls a method of the cache and enters `with self._lock:`
CacheEnter(t, m, key) ==
    /\ cpc[t] = NoOp
    /\ cache_lock = NoThread
    /\ cache_lock' = t
    /\ cpc' = [cpc EXCEPT ![t] = [method |-> m, key |-> key]]
    /\ UNCHANGED <<max_size, cache, cnow, lastset>>
    /\ UNCHANGED <<hvars, lvars, svars, cvars, wvars, stvars, pvars, qvars, rvars, fvars, tvars>>

\* the body of the method runs and the lock is released
CacheBody(t) ==
    /\ cpc[t] # NoOp
    /\ cache_lock = t
    /\ LET key == cpc[t].key IN
         IF cpc[t].method = "set"
         THEN /\ cache' = Stored(Without(cache, Evicted(cache, key)), key)
              /\ lastset' = [key |-> key,
                             present |-> key \in CachedKeys(cache),
                             size |-> Len(cache),
                             evicted |-> Evicted(cache, key),
                             oldest |-> {cache[i].key : i \in
                                           {i \in 1..Len(cache) : \A j \in 1..Len(cache) :
                                              cache[i].created_at <= cache[j].created_at}}]
         ELSE IF cpc[t].method = "get"
         THEN /\ cache' = IF \E i \in 1..Len(cache) : cache[i].key = key /\ IsExpired(cache[i])
                          THEN Without(cache, {key}) ELSE cache
              /\ UNCHANGED lastset
         ELSE IF cpc[t].method = "delete"
         THEN /\ cache' = Without(cache, {key})
              /\ UNCHANGED lastset
         ELSE IF cpc[t].method = "clear"
         THEN /\ cache' = <<>>
              /\ UNCHANGED lastset
         ELSE /\ cache' = Without(cache, {cache[i].key : i \in
                                            {i \in 1..Len(cache) : IsExpired(cache[i])}})
              /\ UNCHANGED lastset
    /\ cache_lock' = NoThread
    /\ cpc' = [cpc EXCEPT ![t] = NoOp]
    /\ UNCHANGED <<max_size, cnow>>
    /\ UNCHANGED <<hvars, lvars, svars, cvars, wvars, stvars, pvars, qvars, rvars, fvars, tvars>>

\* SpecCache: threads use a SimpleCache that was created with some max_size
InitCache ==
    /\ InitHandler(TRUE, TRUE)
    /\ ConfiguredLogger
    /\ FactoryIdle
    /\ NotClosed /\ NoSetupHistory
    /\ StructIdle /\ PerfIdle /\ NothingAcquired
    /\ RateIdle /\ FormatterUnset /\ RetryIdle
    /\ max_size \in 0..MaxSize
    /\ CacheEmpty

NextCache ==
    \/ CacheTick
    \/ \E t \in Threads, m \in CacheMethods, key \in CacheKeys : CacheEnter(t, m, key)
    \/ \E t \in Threads : CacheBody(t)

SpecCache == InitCache /\ [][NextCache]_vars

\* ------------------------------------------------------------ properties
\* where a write unit is on disk: <<folder, file index, position>>
Places(u) ==
    UNION {UNION {{<<d, i, j>> : j \in {k \in 1..Len(fs[d][i]) : fs[d][i][k] = u}} :
                  i \in 1..Len(fs[d])} : d \in Dates}

Unit(r, p) == <<r[1], r[2], p>>

AllUnits(r) == {Unit(r, Parts[i]) : i \in 1..RecLen}

\* the emit / log call made for record r has returned
Finished(r) ==
    \/ r[2] < nrec[r[1]]
    \/ r[2] = nrec[r[1]] /\ pc[r[1]] = "idle"

FailedRecords == {f[2] : f \in failed}

AllDone == \A t \in Threads : nrec[t] = MaxRecords /\ pc[t] = "idle"

\* a file holds whole lines only: each line is the units of one record, in order
WellFormed(f) ==
    /\ Len(f) % RecLen = 0
    /\ \A j \in 1..Len(f) :
         LET first == j - ((j - 1) % RecLen) IN
         /\ f[j][3] = Parts[((j - 1) % RecLen) + 1]
         /\ f[j][1] = f[first][1]
         /\ f[j][2] = f[first][2]

InCritical(t) ==
    pc[t] \in {"rotate", "rot_close", "rot_mkdir", "rot_open", "fallback", "write",
               "rollover", "write_part", "unlock"}

\* the thread waits for a non-reentrant lock that it holds itself
SelfBlocked(t) == pc[t] = "emit_lock" /\ lock = t

C4_AllLinesPresent ==
    AllDone =>
        /\ \A d \in Dates : \A i \in 1..Len(fs[d]) : WellFormed(fs[d][i])
        /\ \A r \in Records : Cardinality(Places(Unit(r, "msg"))) = 1

\* C4 as amended: once all N callers have emitted their M records, the files
\* hold whole lines only, no record is in them twice, and every record that
\* size rotation has not discarded with the oldest backup is in them once.
C4_AllLinesPresentUnlessDiscarded ==
    AllDone =>
        /\ \A d \in Dates : \A i \in 1..Len(fs[d]) : WellFormed(fs[d][i])
        /\ \A r \in Records :
             Cardinality(Places(Unit(r, "msg"))) =
                 (IF Unit(r, "msg") \in evicted THEN 0 ELSE 1)

\* all callers are done, a size rotation and a midnight happened during the run
C4_Witness ==
    /\ AllDone
    /\ evicted = {}
    /\ \E d \in Dates : Len(fs[d]) > 1 /\ Len(fs[d][2]) > 0
    /\ \E r \in Records : emitDate[r] = 2

\* C2: no log call waits for ever: a caller never waits, inside emit, for the
\* handler lock that Handler.handle took for it.
C2_LogCallReturns == \A t \in Threads : ~SelfBlocked(t)

\* C6: an info() call at or above the minimum severity that can go no further
\* (it returned, or it waits for ever) has put one line on the console sink
\* and one line into the log file.
C6_OneLinePerSink ==
    \A t \in Threads :
        (hidx[t] > 0 /\ nrec[t] > 0 /\ rlevel[t] >= lg_level
            /\ (pc[t] = "idle" \/ SelfBlocked(t)))
        => /\ console[Rec(t)] = 1
           /\ Cardinality(Places(Unit(Rec(t), "msg"))) = 1

\* C8: a record whose emit met a failed rotation is on stderr as a fallback
\* line and in no log file.
C8_FallbackOnRotationFailure ==
    \A r \in Records : (Finished(r) /\ <<"rotate", r>> \in failed) =>
        /\ <<"Error rotating", r>> \in stderr
        /\ <<"FALLBACK", r>> \in stderr
        /\ \A u \in AllUnits(r) : Places(u) = {}

\* C9: while the last rotation attempt failed, the next date check rotates
\* again; and a record whose emit met no failure is in today's folder, however
\* many rotations failed before it.
C9_RotationRetried ==
    /\ rotFails > 0 => NeedsRotation(clock)
    /\ \A r \in Records : (Finished(r) /\ r \notin FailedRecords) =>
          \A u \in AllUnits(r) :
              /\ u \notin evicted => Cardinality(Places(u)) = 1
              /\ \A pl \in Places(u) : pl[1] = emitDate[r]

\* the constructor's rotation and the rotation of a later emit failed, and the
\* next record went to the file of its day
C9_Witness ==
    \E r \in Records :
        /\ Finished(r) /\ r \notin FailedRecords
        /\ afterFails[r] >= 2
        /\ <<"Error rotating", CtorRecord>> \in stderr
        /\ Places(Unit(r, "nl")) = {<<emitDate[r], 1, RecLen>>}

\* C10: a formattable record whose write to the active file failed is on
\* stderr, as emit's fallback line or at least in the handler's error report.
C10_WriteErrorFallback ==
    \A r \in Records :
        (Finished(r) /\ <<"write", r>> \in failed /\ <<"format", r>> \notin failed) =>
            (<<"WRITE ERROR", r>> \in stderr \/ <<"Logging error", r>> \in stderr)

NumSinks(kind) == Cardinality({i \in 1..Len(lg_handlers) : lg_handlers[i].kind = kind})

\* C5: once every thread has called the factory and all calls have returned,
\* the logger has exactly one console sink and at most one file sink.
C5_NoDuplicateSinks ==
    (\A t \in Threads : ncall[t] > 0 /\ spc[t] = "idle") =>
        (NumSinks("console") = 1 /\ NumSinks("file") <= 1)

\* C7: while the logger has sinks attached, no step of a factory call changes
\* its level or its propagate flag.
C7_ReturnedUnchanged ==
    [][HasHandlers => (lg_level' = lg_level /\ lg_propagate' = lg_propagate)]_vars

\* C11: once close() has returned, the handler has no file open: it has no
\* current writer and no writer's stream is open, whatever is emitted later.
C11_ClosedForGood ==
    closed => (current_handler = NoHandler /\ \A d \in Dates : ~stream[d])

\* C12: once the factory calls have returned, if a directory creation failed
\* inside one of them (the base directory or the dated folder of the handler's
\* constructor), the logger has no file sink and the warning went through the
\* console sink.
C12_ConsoleOnlyAfterDirFailure ==
    (dirfail /\ \A t \in Threads : spc[t] = "idle") =>
        (NumSinks("file") = 0 /\ warned)

\* the kinds of the attached sinks, in attachment order
SinkKinds == [i \in 1..Len(lg_handlers) |-> lg_handlers[i].kind]

\* some factory call has returned
FirstCallReturned ==
    \E t \in Threads : ncall[t] >= 2 \/ (ncall[t] = 1 /\ spc[t] = "idle")

NumPairs(text) == (Len(text) - 1) \div 4

WellFormedText(text) ==
    /\ Len(text) >= 1
    /\ text[1] = "msg"
    /\ (Len(text) - 1) % 4 = 0
    /\ \A i \in 1..NumPairs(text) :
         /\ text[4 * i - 2] = (IF i = 1 THEN " | " ELSE " ")
         /\ text[4 * i] = "="

TextPairs(text) == {<<text[4 * i - 1], text[4 * i + 1]>> : i \in 1..NumPairs(text)}

TextKeys(text) == {text[4 * i - 1] : i \in 1..NumPairs(text)}

DictItems(d) == {d[i] : i \in 1..Len(d)}

\* the pairs a record must carry: the ambient ones whose key the call does not
\* give itself, and the per-call ones
ExpectedPairs(amb, fields) ==
    {<<item[1], Str(item[2])>> :
        item \in {a \in amb : a[1] \notin DictKeys(fields)} \cup DictItems(fields)}

\* C14: no StructuredLogger call raises into its caller.
C14_NeverRaises == sraised = {}

\* C15: every forwarded message is msg, then (unless there is no field at all)
\* " | " and the space-separated key=value pairs of the union of the ambient and
\* the per-call keys, each key once, with the per-call value on a collision.
C15_ForwardedMessage ==
    [][lastmsg' # lastmsg =>
          /\ WellFormedText(lastmsg'.text)
          /\ TextPairs(lastmsg'.text) = ExpectedPairs(DictItems(context), lastmsg'.fields)
          /\ NumPairs(lastmsg'.text) =
                Cardinality(DictKeys(context) \cup DictKeys(lastmsg'.fields))]_vars

\* the per-call a=2 replaced the ambient value of a, in a's place before b
C15_Witness ==
    /\ lastmsg.fields = << <<"a", 2>> >>
    /\ lastmsg.text = <<"msg", " | ", "a", "=", "2", " ", "b", "=", "1">>

\* C16: for one task, the context is exactly what set_context gave since the
\* last clear_context; a log call leaves it alone; a record carries those
\* ambient fields plus its own; with nothing set since the last clear and no
\* per-call field the message has no tail.
C16_ContextRoundTrip ==
    [][/\ DictItems(context) = ambient
       /\ lastmsg' # lastmsg =>
            /\ context' = context
            /\ TextPairs(lastmsg'.text) = ExpectedPairs(ambient, lastmsg'.fields)
            /\ (ambient = {} /\ lastmsg'.fields = <<>>) => lastmsg'.text = <<"msg">>]_vars

\* set_context(a=1); info("msg", b=2): the line carries a=1 b=2 and b did not
\* become ambient
C16_Witness ==
    /\ lastmsg.fields = << <<"b", 2>> >>
    /\ lastmsg.text = <<"msg", " | ", "a", "=", "1", " ", "b", "=", "2">>
    /\ context = << <<"a", 1>> >>

\* C17: a record carries the fields that any task set on the shared instance
\* since the last clear_context by any task: the fields only other tasks set
\* are in it, the fields the caller set before another task cleared are not.
C17_SharedContext ==
    [][lastmsg' # lastmsg =>
          /\ TextKeys(lastmsg'.text) =
                {item[1] : item \in ambient} \cup DictKeys(lastmsg'.fields)
          /\ lastmsg'.foreign \subseteq TextKeys(lastmsg'.text)
          /\ lastmsg'.missing \cap TextKeys(lastmsg'.text) = {}]_vars

\* task 1 set a, task 2 cleared and set b: the record of task 1 carries b and
\* lacks a
C17_Witness ==
    /\ lastmsg.task = 1
    /\ lastmsg.foreign = {"b"}
    /\ lastmsg.missing = {"a"}

RecordOf(u) == <<u[1], u[2]>>

AcqIndex(r) ==
    IF \E i \in 1..Len(acquired) : acquired[i] = r
    THEN CHOOSE i \in 1..Len(acquired) : acquired[i] = r
    ELSE 0

\* reading order of the log: the folder of the earlier date first, in a folder
\* the higher-numbered backup first, in a file from its start
ReadBefore(p, q) ==
    \/ p[1] < q[1]
    \/ p[1] = q[1] /\ p[2] > q[2]
    \/ p[1] = q[1] /\ p[2] = q[2] /\ p[3] < q[3]

\* C21: whatever the interleaving, of two lines found in the log the one read
\* first belongs to the emit call that took the handler lock first, and of two
\* lines of one thread the one read first belongs to the earlier call.
C21_FileOrderIsLockOrder ==
    \A d1 \in Dates, d2 \in Dates :
      \A i1 \in 1..Len(fs[d1]), i2 \in 1..Len(fs[d2]) :
        \A j1 \in 1..Len(fs[d1][i1]), j2 \in 1..Len(fs[d2][i2]) :
          LET u == fs[d1][i1][j1]
              v == fs[d2][i2][j2]
          IN  ReadBefore(<<d1, i1, j1>>, <<d2, i2, j2>>) =>
                /\ AcqIndex(RecordOf(u)) > 0
                /\ AcqIndex(RecordOf(u)) <= AcqIndex(RecordOf(v))
                /\ u[1] = v[1] => u[2] <= v[2]

\* all calls are done, the threads took the lock in turns, and a folder holds a
\* backup with the line of one thread and a primary file with a line of the other
C21_Witness ==
    /\ AllDone
    /\ Len(acquired) = NumThreads * MaxRecords
    /\ acquired[1][1] # acquired[2][1]
    /\ \E d \in Dates :
         /\ Len(fs[d]) >= 2
         /\ Len(fs[d][1]) > 0 /\ Len(fs[d][2]) > 0
         /\ fs[d][1][1][1] # fs[d][2][1][1]

\* the requests of a client to a path that were answered 200 before answer k
\* and were made within the window that ends at the time of request k
AnsweredOkBefore(k) ==
    {j \in 1..(k - 1) :
        /\ answers[j].client = answers[k].client
        /\ answers[j].path = answers[k].path
        /\ answers[j].status = 200
        /\ answers[j].at > answers[k].at - window_seconds}

\* C22: with the default exclude_paths, a request to /test from a client that
\* already had max_requests requests to /test answered 200 within the window is
\* answered 429 with a Retry-After header and does not reach the application.
C22_ExcessRequestRejected ==
    exclude_paths = DefaultExcludePaths =>
        \A k \in 1..Len(answers) :
            (answers[k].path = TestPath /\ Cardinality(AnsweredOkBefore(k)) >= max_requests)
                => /\ answers[k].status = 429
                   /\ answers[k].retry_after # <<>>
                   /\ ~answers[k].passed

\* the counted requests of a client: those the limiter checked and let through
CountedBefore(k) ==
    {j \in 1..(k - 1) :
        /\ answers[j].client = answers[k].client
        /\ answers[j].status = 200
        /\ answers[j].remaining # <<>>}

\* C23: a request that the limiter checks more than window_seconds after every
\* counted request of its client is answered 200, however many requests of that
\* client were answered 429 in between.
C23_AllowedAgainAfterWindow ==
    \A k \in 1..Len(answers) :
        (/\ ~Excluded(answers[k].path)
         /\ \A j \in CountedBefore(k) : answers[k].at - answers[j].at > window_seconds)
            => answers[k].status = 200 /\ answers[k].passed

\* a client was answered 429 inside the window and 200 after it
C23_Witness ==
    \E j \in 1..Len(answers), k \in 1..Len(answers) :
        /\ j < k
        /\ answers[j].client = answers[k].client
        /\ answers[j].status = 429
        /\ answers[k].status = 200
        /\ ~Excluded(answers[k].path)
        /\ CountedBefore(j) # {}
        /\ \A i \in CountedBefore(k) : answers[k].at - answers[i].at > window_seconds
        /\ answers[k].at - answers[j].at <= window_seconds

\* C24: when the body of log_performance has raised and control has left the
\* block, every record the block handed to the logger is the ERROR record: no
\* 'completed in' and no '(SLOW' record was emitted.
C24_OnlyErrorRecordOnRaise ==
    (ppc = "done" /\ pbody # "normal") =>
        \A i \in 1..Len(plog) : plog[i].level = ERROR /\ plog[i].kind = "FAILED"

\* C25: every line written through a handler that was given log_format right
\* after its construction is in log_format, the lines written before the first
\* date rollover included.
C25_FileLinesFormatted ==
    \A r \in Records : linefmt[r] # NotWritten => linefmt[r] = FormatUsed(LogFormat)

\* the key=value pairs of a forwarded message, in the order they are written
TextPairSeq(text) == [i \in 1..NumPairs(text) |-> <<text[4 * i - 1], text[4 * i + 1]>>]

\* the ambient items whose key the call does not give, in the order they were
\* set, then the per-call items in call order
AmbientThenPerCall(ctx, fields) ==
    LET NotGiven(item) == item[1] \notin DictKeys(fields)
        items == SelectSeq(ctx, NotGiven) \o fields
    IN  [i \in 1..Len(items) |-> <<items[i][1], Str(items[i][2])>>]

\* C26: the tail of every forwarded message lists the ambient fields in the
\* order they were set and then the per-call fields in call order; a key given
\* both ways is listed among the per-call fields, after every other ambient
\* field, with the per-call value.
C26_AmbientThenPerCallOrder ==
    [][lastmsg' # lastmsg =>
          TextPairSeq(lastmsg'.text) = AmbientThenPerCall(context, lastmsg'.fields)]_vars

\* C27: a wrapper with max_retries = n >= 0 invokes the function at most n + 1
\* times and never again after an invocation that returned or raised an
\* exception that is not listed; when it returns, it returns the result of its
\* last invocation, which succeeded; when it raises, it raises the exception of
\* its last invocation, which was not listed or was the (n+1)-th.
C27_AtMostNPlusOneInvocations ==
    (rkind \in BackoffKinds /\ rargs.limit >= 0) =>
        /\ Len(invoked) <= rargs.limit + 1
        /\ \A i \in 1..(Len(invoked) - 1) : invoked[i] = "listed"
        /\ rpc = "done" =>
             /\ rexit.how \in {"returned", "raised"}
             /\ rexit.from = Len(invoked)
             /\ rexit.from >= 1
             /\ rexit.how = "returned" <=> invoked[rexit.from] = "ok"
             /\ invoked[rexit.from] = "listed" => Len(invoked) = rargs.limit + 1

\* all n + 1 = 3 invocations raised a listed exception and the last was re-raised
C27_Witness ==
    /\ rkind \in BackoffKinds
    /\ rargs.limit = 2
    /\ invoked = <<"listed", "listed", "listed">>
    /\ rpc = "done"
    /\ rexit = [how |-> "raised", from |-> 3]

\* C28: when retry_until_success, retry_sync_until_success or
\* _execute_with_retries returns normally, one of its invocations of the
\* function succeeded, whatever the attempt limit.
C28_ReturnsOnlyAfterSuccess ==
    (rkind \in UntilKinds /\ rpc = "done" /\ rexit.how = "returned") =>
        \E i \in 1..Len(invoked) : invoked[i] = "ok"

\* C29: every delay a backoff wrapper sleeps is at most max_delay, and the k-th
\* (from 0) is initial_delay * backoff_factor^k when that is within max_delay.
C29_DelayCapped ==
    rkind \in BackoffKinds =>
        \A i \in 1..Len(slept) :
            /\ slept[i] <= rargs.max_delay
            /\ rargs.initial_delay * (rargs.backoff_factor ^ (i - 1)) <= rargs.max_delay
                 => slept[i] = rargs.initial_delay * (rargs.backoff_factor ^ (i - 1))

\* C30: a cache created with a max_size never holds more than max_size
\* entries; a set of a new key into a cache that holds max_size entries deletes
\* one entry, one with the oldest created_at, and no other set deletes anything.
C30_NeverExceedsMaxSize ==
    /\ Len(cache) <= max_size
    /\ lastset # NoOp =>
         IF ~lastset.present /\ lastset.size >= max_size
         THEN \E k \in lastset.oldest : lastset.evicted = {k}
         ELSE lastset.evicted = {}

====
